---- MODULE Spec2Model ----
(***************************************************************************)
(* A model of logfire's emission path (src/logfire/_main.py): the          *)
(* attribute normalizer user_attributes, the ambient attribute/tag context *)
(* (ATTRIBUTES, with_attributes, with_tags), the span activation stack     *)
(* (_PendingSpan, LogfireSpan) and the emission facade (Logfire._span,     *)
(* Logfire.log).                                                           *)
(*                                                                         *)
(* Python values are tagged records, one field name per tag, so that       *)
(* values of different Python types are never compared field by field.     *)
(* A dict is a function from its keys (strings) to values where its order  *)
(* is not observable, and a sequence of [k, v] items where the code        *)
(* iterates over it.                                                       *)
(***************************************************************************)
EXTENDS Integers, Sequences, FiniteSets, TLC

VARIABLES
    \* ---- functions under test: user_attributes, logfire_format
    attributes,     \* the dict handed to the function, in insertion order
    prepared,       \* what user_attributes returned for it
    message,        \* what logfire_format returned for it
    normPc,         \* "input": not yet called, "done": returned
    \* ---- span activation stack, one execution chain
    span,           \* the LogfireSpan object the chain works with
    pendings,       \* the _PendingSpan objects, by id
    withStack,      \* the chain's open `with` blocks, innermost last
    current,        \* the current span of the chain's context
    raising,        \* the exception propagating through the chain
    now,            \* the wall clock read by Span.end()
    last,           \* the last operation, with what it saw and left
    \* ---- ambient context, several execution chains
    objects,        \* the dict objects ATTRIBUTES is bound to, by id
    ATTRIBUTES,     \* the ContextVar: each chain's binding, an object id
    scopes,         \* each chain's open with_attributes/with_tags scopes
    failing,        \* the exception propagating through each chain
    closed,         \* the scope closed last, until a scope opens or a call emits
    emitted,        \* the record the last log()/span() call emitted
    spawn           \* each chain's origin: what it inherited when spawned

normVars == <<attributes, prepared, message, normPc>>
spanVars == <<span, pendings, withStack, current, raising, now, last>>
ambVars == <<objects, ATTRIBUTES, scopes, failing, closed, emitted, spawn>>
vars == <<attributes, prepared, message, normPc,
          span, pendings, withStack, current, raising, now, last,
          objects, ATTRIBUTES, scopes, failing, closed, emitted, spawn>>

-----------------------------------------------------------------------------
(* Bounds of the model *)

\* the longest dict handed to user_attributes
MaxAttrs == 2
\* the deepest nesting of `with` blocks
MaxDepth == 2
\* the exception events one run records on its spans
MaxEvents == 1
\* the with_attributes/with_tags scopes open at once, over all chains
MaxScopes == 2
\* the longest argument value handed to logfire_format
MaxArgLen == 10

-----------------------------------------------------------------------------
(* Python values *)

NoneV == [t |-> "none"]
IntV(i) == [t |-> "int", i |-> i]
StrV(s) == [t |-> "str", s |-> s]
BoolV(b) == [t |-> "bool", b |-> b]
\* a float, kept by its repr
FloatV(r) == [t |-> "float", f |-> r]
\* a tuple of strings
TupleV(l) == [t |-> "tuple", l |-> l]
\* a list of values
ListV(e) == [t |-> "list", e |-> e]
\* a dict, as the sequence of its items
DictV(m) == [t |-> "dict", m |-> m]
\* an arbitrary object
ObjectV == [t |-> "object"]
\* FlattenV(value): the wrapper of ._flatten around a mapping or a sequence
FlattenV(w) == [t |-> "flatten", w |-> w]

Item(k, v) == [k |-> k, v |-> v]

\* d[k] = v on a dict held as a function
Put(d, k, v) == (k :> v) @@ d
EmptyDict == <<>>

\* isinstance(value, int): bool is a subclass of int
IsInstanceInt(value) == value.t \in {"int", "bool"}
\* the integer an int (or a bool) compares as
IntValue(value) == IF value.t = "int" THEN value.i ELSE IF value.b THEN 1 ELSE 0

\* str(k), for the keys of a flattened mapping and the indexes of a sequence
PyStr(v) == IF v.t = "int" THEN ToString(v.i) ELSE v.s

-----------------------------------------------------------------------------
(* Names of ._constants, imported at src/logfire/_main.py:44-56; their     *)
(* values are not in the sources, only their roles.                        *)

ATTRIBUTES_LOG_LEVEL_KEY == "logfire.level"
ATTRIBUTES_MESSAGE_KEY == "logfire.msg"
ATTRIBUTES_MESSAGE_TEMPLATE_KEY == "logfire.msg_template"
ATTRIBUTES_SPAN_TYPE_KEY == "logfire.span_type"
ATTRIBUTES_TAGS_KEY == "logfire.tags"
ATTRIBUTES_VALIDATION_ERROR_KEY == "exception.logfire.data"
NON_SCALAR_VAR_SUFFIX == "__JSON"
NULL_ARGS_KEY == "logfire.null_args"
OTLP_LARGE_INT_SUFFIX == "__bigint"
\* The largest integer the wire format carries (2^63 - 1 in OTLP). Python
\* integers are unbounded and the code only compares against this bound, so
\* the model scales it down to a value TLC's integers can step across.
OTLP_MAX_INT_SIZE == 1000

-----------------------------------------------------------------------------
(* logfire_json_dumps of ._json_encoder: a JSON text for any value; what   *)
(* it cannot encode becomes a string form. It never fails.                 *)

RECURSIVE JoinStr(_, _)
JoinStr(strs, sep) ==
    IF strs = <<>> THEN ""
    ELSE IF Len(strs) = 1 THEN strs[1]
    ELSE strs[1] \o sep \o JoinStr(Tail(strs), sep)

RECURSIVE logfire_json_dumps(_)
logfire_json_dumps(v) ==
    CASE v.t = "none" -> "null"
      [] v.t = "int" -> ToString(v.i)
      [] v.t = "bool" -> IF v.b THEN "true" ELSE "false"
      [] v.t = "str" -> "\"" \o v.s \o "\""
      [] v.t = "float" -> v.f
      [] v.t = "tuple" ->
            "[" \o JoinStr([i \in 1..Len(v.l) |-> "\"" \o v.l[i] \o "\""], ",") \o "]"
      [] v.t = "list" ->
            "[" \o JoinStr([i \in 1..Len(v.e) |-> logfire_json_dumps(v.e[i])], ",") \o "]"
      [] v.t = "dict" ->
            "{" \o JoinStr([i \in 1..Len(v.m) |->
                    "\"" \o PyStr(v.m[i].k) \o "\":" \o logfire_json_dumps(v.m[i].v)], ",")
                \o "}"
      [] v.t = "flatten" -> logfire_json_dumps(v.w)
      [] OTHER -> "\"<object>\""

-----------------------------------------------------------------------------
(* user_attributes, src/logfire/_main.py:602-633. The accumulator is the   *)
(* pair of locals (prepared, null_args).                                   *)

\* a slip of lines 611-612: the null value is stored like a scalar
NullBranchStoresNull(acc, key) == [acc EXCEPT !.prepared = Put(@, key, NoneV)]

\* lines 611-612: value is None
NullBranch(acc, key) == [acc EXCEPT !.null_args = Append(@, key)]

\* line 614: the test that sends an integer to the large-int key
ExceedsWireInt(value) == IntValue(value) > OTLP_MAX_INT_SIZE

\* lines 613-617: isinstance(value, int)
IntBranch(acc, key, value) ==
    IF ExceedsWireInt(value)
    THEN [acc EXCEPT !.prepared =
            Put(@, key \o OTLP_LARGE_INT_SUFFIX, StrV(ToString(IntValue(value))))]
    ELSE [acc EXCEPT !.prepared = Put(@, key, value)]

\* lines 618-619: isinstance(value, (str, bool, float))
ScalarBranch(acc, key, value) == [acc EXCEPT !.prepared = Put(@, key, value)]

\* lines 627-628: everything else becomes JSON text under the suffixed key
JsonBranch(acc, key, value) ==
    [acc EXCEPT !.prepared =
        Put(@, key \o NON_SCALAR_VAR_SUFFIX, StrV(logfire_json_dumps(value)))]

\* line 622: value.items() of a mapping, enumerate(value) of a sequence
\* (indexes from 0)
FlattenItems(w) ==
    IF w.t = "dict" THEN w.m
    ELSE [i \in 1..Len(w.e) |-> Item(IntV(i - 1), w.e[i])]

\* lines 625-626: copy one inner result under 'key.inner_key'
RECURSIVE CopyInner(_, _, _, _)
CopyInner(prep, key, inner, keys) ==
    IF keys = {} THEN prep
    ELSE LET inner_key == CHOOSE x \in keys : TRUE
         IN CopyInner(Put(prep, key \o "." \o inner_key, inner[inner_key]),
                      key, inner, keys \ {inner_key})

RECURSIVE UserAttributesLoop(_, _, _, _)
RECURSIVE FlattenBranch(_, _, _, _)

\* lines 620-626: a Flatten wrapper, when should_flatten
FlattenBranch(acc, key, items, j) ==
    IF j > Len(items) THEN acc
    ELSE LET inner_acc == UserAttributesLoop(
                              <<Item(PyStr(items[j].k), items[j].v)>>, FALSE, 1,
                              [prepared |-> EmptyDict, null_args |-> <<>>])
             inner_prepared == inner_acc
         IN FlattenBranch(
                [acc EXCEPT !.prepared =
                    CopyInner(@, key, inner_prepared, DOMAIN inner_prepared)],
                key, items, j + 1)

\* a slip of line 630: the reserved key is written without the test
FinishAlways(acc) == Put(acc.prepared, NULL_ARGS_KEY, TupleV(acc.null_args))

\* lines 630-633: the null keys, once, under the reserved key
Finish(acc) ==
    IF acc.null_args # <<>>
    THEN Put(acc.prepared, NULL_ARGS_KEY, TupleV(acc.null_args))
    ELSE acc.prepared

\* lines 610-628: the loop over attributes.items(), from item i on;
\* attrs is a sequence of Item(key string, value)
UserAttributesLoop(attrs, should_flatten, i, acc) ==
    IF i > Len(attrs) THEN Finish(acc)
    ELSE LET key == attrs[i].k
             value == attrs[i].v
             next ==
                IF value.t = "none" THEN NullBranch(acc, key)
                ELSE IF IsInstanceInt(value) THEN IntBranch(acc, key, value)
                ELSE IF value.t \in {"str", "float"} THEN ScalarBranch(acc, key, value)
                ELSE IF value.t = "flatten" /\ should_flatten
                     THEN FlattenBranch(acc, key, FlattenItems(value.w), 1)
                ELSE JsonBranch(acc, key, value)
         IN UserAttributesLoop(attrs, should_flatten, i + 1, next)

user_attributes(attrs, should_flatten) ==
    UserAttributesLoop(attrs, should_flatten, 1,
                       [prepared |-> EmptyDict, null_args |-> <<>>])

-----------------------------------------------------------------------------
(* logfire_format of ._formatter. A template is its text with the chunks   *)
(* the formatter parses it into. A name that the mapping does not resolve  *)
(* makes the render return the fallback when one is given and fail         *)
(* otherwise.                                                              *)

Lit(s) == [c |-> "lit", s |-> s]
Arg(name) == [c |-> "arg", name |-> name]
Template(text, chunks) == [text |-> text, chunks |-> chunks]

\* the canonical string conversion of an argument value
PyFormat(v) ==
    CASE v.t = "str" -> v.s
      [] v.t = "int" -> ToString(v.i)
      [] v.t = "bool" -> IF v.b THEN "True" ELSE "False"
      [] v.t = "none" -> "None"
      [] OTHER -> logfire_json_dumps(v)

\* the lengths kept of a value that is truncated (62 and 62 in
\* test_truncate, src/tests/test_formatter.py:62-82; scaled down, so that
\* short values reach them)
TruncatePrefix == 2
TruncateSuffix == 2
Ellipsis == "..."
\* the length of a truncated value, which is also the longest value that is
\* rendered whole
TruncatedLength == TruncatePrefix + Len(Ellipsis) + TruncateSuffix

\* a slip of the threshold: a value one longer than the truncated length is
\* rendered whole
truncate_above_limit(s) ==
    IF Len(s) <= TruncatedLength + 1 THEN s
    ELSE SubSeq(s, 1, TruncatePrefix) \o Ellipsis
             \o SubSeq(s, Len(s) - TruncateSuffix + 1, Len(s))

\* the truncation of one rendered argument value
truncate_string(s) ==
    IF Len(s) <= TruncatedLength THEN s
    ELSE SubSeq(s, 1, TruncatePrefix) \o Ellipsis
             \o SubSeq(s, Len(s) - TruncateSuffix + 1, Len(s))

\* literal text is copied, each argument value is formatted and truncated
RECURSIVE RenderChunks(_, _)
RenderChunks(chunks, kwargs) ==
    IF chunks = <<>> THEN ""
    ELSE (IF Head(chunks).c = "lit" THEN Head(chunks).s
          ELSE truncate_string(PyFormat(kwargs[Head(chunks).name])))
         \o RenderChunks(Tail(chunks), kwargs)

Resolves(chunks, kwargs) ==
    \A i \in 1..Len(chunks) :
        chunks[i].c = "arg" => chunks[i].name \in DOMAIN kwargs

NoFallback == [given |-> FALSE]
Fallback(s) == [given |-> TRUE, s |-> s]

\* the result: ok with the message, or the format error raised
logfire_format(format_string, kwargs, fallback) ==
    IF Resolves(format_string.chunks, kwargs)
    THEN [ok |-> TRUE, s |-> RenderChunks(format_string.chunks, kwargs)]
    ELSE IF fallback.given THEN [ok |-> TRUE, s |-> fallback.s]
    ELSE [ok |-> FALSE, s |-> ""]

-----------------------------------------------------------------------------
(* The tracer's span (opentelemetry.sdk.trace) as the code uses it: every  *)
(* mutator of an ended span is ignored.                                    *)

\* end_time of a span that has not ended
NotEnded == 0
\* the context's current span: none, the LogfireSpan of the model, or a
\* span that code outside this library made current before the chain runs
NoSpan == "none"
TheSpan == "span"
OuterSpan == "outer"

\* a slip of is_recording: an ended span still reported as recording
always_recording(sp) == TRUE

\* sdk_span.is_recording()
is_recording(sp) == sp.end_time = NotEnded

\* sdk_span.set_attribute(key, value)
SdkSetAttribute(sp, key, value) ==
    IF is_recording(sp) THEN [sp EXCEPT !.attributes = Put(@, key, value)] ELSE sp

\* sdk_span.set_status(Status(status_code))
SdkSetStatus(sp, status_code) ==
    IF is_recording(sp) THEN [sp EXCEPT !.status = status_code] ELSE sp

\* sdk_span.record_exception(exc_value, attributes=attributes, escaped=True)
SdkRecordException(sp, exc_value, attribute_keys) ==
    IF is_recording(sp)
    THEN [sp EXCEPT !.events = Append(@, [exc |-> exc_value, keys |-> attribute_keys])]
    ELSE sp

\* self._span.end(): the end time is the wall clock
SdkEnd(sp, time) ==
    IF is_recording(sp) THEN [sp EXCEPT !.end_time = time] ELSE sp

\* context_api.attach(trace_api.set_span_in_context(sdk_span)): the token
\* restores the context the attach replaced
NoToken == [id |-> 0, old |-> NoSpan]
Attach(depth, cur) == [id |-> depth, old |-> cur]

\* context_api.detach(token): the current span afterwards; a token that is
\* None fails inside detach, which logs the failure and changes nothing
Detach(cur, token) == IF token = NoToken THEN cur ELSE token.old

-----------------------------------------------------------------------------
(* Logfire._span, src/logfire/_main.py:97-144, and LogfireSpan             *)

\* _get_caller_stack_info(stacklevel)
GetCallerStackInfo == "code.function" :> StrV("main")

\* _merge_tags_into_attributes, lines 593-599; tags are a list of str
merge_tags_into_attributes(attrs, tags) ==
    IF tags = <<>> THEN NoneV
    ELSE IF ATTRIBUTES_TAGS_KEY \in DOMAIN attrs
         THEN ListV(attrs[ATTRIBUTES_TAGS_KEY].e \o tags)
    ELSE ListV(tags)

\* `if tags:` of a list or None
Truthy(tags) == tags.t = "list" /\ tags.e # <<>>

\* the items of a dict held as a function, in one fixed order
RECURSIVE ItemsOf(_, _)
ItemsOf(d, keys) ==
    IF keys = {} THEN <<>>
    ELSE LET k == CHOOSE x \in keys : TRUE
         IN <<Item(k, d[k])>> \o ItemsOf(d, keys \ {k})

\* a slip of lines 108 and 251: the ambient attributes unpacked last
merge_ambient_last(stack_info, ambient, attrs) == ambient @@ attrs @@ stack_info

\* lines 108 and 251: {**stack_info, **ATTRIBUTES.get(), **attributes}, a
\* later entry replaces an earlier one with the same key
merge_attributes(stack_info, ambient, attrs) == attrs @@ ambient @@ stack_info

\* a slip of line 118: logfire_format called as in log(), without fallback
span_without_fallback == NoFallback

\* line 118: fallback='...'
span_fallback == Fallback("...")

\* lines 108-131: the attributes of the span that is started, and the
\* mapping kept for the re-render at exit
SpanAttributes(msg_template, attrs, span_name, ambient, facade_tags) ==
    LET stack_info == GetCallerStackInfo
        merged0 == merge_attributes(stack_info, ambient, attrs)
        merged1 == Put(merged0, ATTRIBUTES_MESSAGE_TEMPLATE_KEY, StrV(msg_template.text))
        tags == merge_tags_into_attributes(merged1, facade_tags)
        span_name_ == IF span_name # NoneV THEN span_name ELSE StrV(msg_template.text)
        format_kwargs == merged1 @@ ("span_name" :> span_name_)
        log_message == logfire_format(msg_template, format_kwargs, span_fallback)
        merged2 == Put(merged1, ATTRIBUTES_MESSAGE_KEY, StrV(log_message.s))
        otlp0 == user_attributes(ItemsOf(merged2, DOMAIN merged2), TRUE)
        otlp_attributes == IF Truthy(tags) THEN Put(otlp0, ATTRIBUTES_TAGS_KEY, tags)
                           ELSE otlp0
    IN [name |-> span_name_, otlp_attributes |-> otlp_attributes,
        format_kwargs |-> format_kwargs]

\* lines 133-144 and LogfireSpan.__init__ (386-389): the span object;
\* start_kwargs and sets are history: the mapping at start, the
\* set_attribute calls since
LogfireSpan(msg_template, attrs, span_name, ambient, facade_tags) ==
    LET a == SpanAttributes(msg_template, attrs, span_name, ambient, facade_tags)
    IN [created |-> TRUE,
        name |-> a.name,
        attributes |-> a.otlp_attributes,
        end_time |-> NotEnded,
        status |-> "unset",
        events |-> <<>>,
        format_string |-> msg_template,
        kwargs |-> a.format_kwargs,
        end_on_exit |-> TRUE,
        start_kwargs |-> a.format_kwargs,
        sets |-> EmptyDict]

\* LogfireSpan.end, lines 414-424
LogfireSpanEnd(sp, time) == IF is_recording(sp) THEN SdkEnd(sp, time) ELSE sp

\* LogfireSpan.set_attribute, lines 438-446
LogfireSpanSetAttribute(sp, key, value) ==
    [SdkSetAttribute(sp, key, value) EXCEPT
        !.kwargs = Put(@, key, value),
        !.sets = Put(@, key, value)]

-----------------------------------------------------------------------------
(* _PendingSpan, src/logfire/_main.py:458-539                              *)

\* the exceptions user code raises inside a scope; KeyboardInterrupt is a
\* BaseException that is no Exception
UserExceptions == {"ValueError", "ValidationError", "KeyboardInterrupt"}
\* what logfire_format raises for a name it cannot resolve (a KeyError)
FormatError == "FormatError"
NoException == "none"

\* line 499: exc_type is not None and isinstance(exc_value, Exception)
IsException(exc_value) == exc_value \in {"ValueError", "ValidationError", FormatError}

\* line 513: isinstance(exc_value, ValidationError)
IsValidationError(exc_value) == exc_value = "ValidationError"

\* _PendingSpan(span, end_on_exit=end_on_exit), lines 468-472; end_on_exit
\* is NoneV, BoolV(TRUE) or BoolV(FALSE)
PendingSpan(sid, end_on_exit) ==
    [created |-> TRUE, span |-> sid, end_on_exit |-> end_on_exit,
     token |-> NoToken, tokens_stack |-> <<>>]

FreePending == [created |-> FALSE]
FreeSpan == [created |-> FALSE]

\* __enter__, lines 477-482: the token just attached becomes self.token,
\* the one it replaces goes on tokens_stack
PendingEnter(pd, token) ==
    [pd EXCEPT
        !.tokens_stack = IF pd.token # NoToken THEN Append(@, pd.token) ELSE @,
        !.token = token]

\* __exit__, lines 489-492: self.token after the detach
PendingPopToken(pd) ==
    IF pd.tokens_stack # <<>>
    THEN [pd EXCEPT !.token = pd.tokens_stack[Len(pd.tokens_stack)],
                    !.tokens_stack = SubSeq(@, 1, Len(@) - 1)]
    ELSE [pd EXCEPT !.token = NoToken]

\* __exit__, lines 496-523: the status and the exception record
ExitRecordStatus(sp, exc_value) ==
    IF is_recording(sp)
    THEN IF exc_value # NoException /\ IsException(exc_value)
         THEN LET sp1 == SdkSetStatus(sp, "error")
                  sp2 == IF IsValidationError(exc_value)
                         THEN SdkSetAttribute(sp1, ATTRIBUTES_VALIDATION_ERROR_KEY,
                                              StrV("validation json"))
                         ELSE sp1
                  keys == IF IsValidationError(exc_value)
                          THEN {"exception.logfire.trace", ATTRIBUTES_VALIDATION_ERROR_KEY}
                          ELSE {"exception.logfire.trace"}
              IN SdkRecordException(sp2, exc_value, keys)
         ELSE SdkSetStatus(sp, "ok")
    ELSE sp

\* a slip of line 487: the detach moved under `if sdk_span.is_recording()`
exit_detach_if_recording(pd, sp, cur) ==
    IF is_recording(sp) THEN Detach(cur, pd.token) ELSE cur

\* __exit__, line 487: context_api.detach(self.token), whatever the span's
\* state
exit_detach(pd, sp, cur) == Detach(cur, pd.token)

\* a slip of line 535: the scope's own end_on_exit ignored
span_end_on_exit_only(pd, sp) == sp.end_on_exit

\* __exit__, line 535
EffectiveEndOnExit(pd, sp) ==
    IF pd.end_on_exit = NoneV THEN sp.end_on_exit ELSE pd.end_on_exit.b

\* __exit__, lines 486-539, as a whole: the _PendingSpan, its span, the
\* current span and the exception that leaves the `with` statement
PendingExit(pd, sp, cur, exc_value, time) ==
    LET cur1 == exit_detach(pd, sp, cur)
        pd1 == PendingPopToken(pd)
        sp1 == ExitRecordStatus(sp, exc_value)
        log_message == logfire_format(sp1.format_string, sp1.kwargs, NoFallback)
    IN IF ~log_message.ok
       THEN \* line 528 raises: the rest of __exit__ does not run
            [pd |-> pd1, sp |-> sp1, cur |-> cur1, exc |-> FormatError,
             raised |-> TRUE]
       ELSE LET sp2 == SdkSetAttribute(sp1, ATTRIBUTES_MESSAGE_KEY, StrV(log_message.s))
                sp3 == IF EffectiveEndOnExit(pd1, sp2)
                       THEN LogfireSpanEnd(sp2, time) ELSE sp2
            IN [pd |-> [pd1 EXCEPT !.token = NoToken], sp |-> sp3, cur |-> cur1,
                exc |-> exc_value, raised |-> FALSE]

-----------------------------------------------------------------------------
(* The ambient context, src/logfire/_main.py:449 and 542-599. ATTRIBUTES   *)
(* is a ContextVar: each execution chain has its own binding, and every    *)
(* binding is a reference to a dict object. The default {} of line 449 is  *)
(* one object, which every chain that has set nothing sees.                *)

Chains == {1, 2}

\* the dict object that is the ContextVar's default
DefaultObj == 1
ObjIds == DefaultObj..(DefaultObj + Cardinality(Chains) * MaxScopes)

LiveObj(d) == [live |-> TRUE, d |-> d]
FreeObj == [live |-> FALSE, d |-> EmptyDict]

\* the objects a chain can still reach: its binding and the old_attributes
\* its open scopes hold
RefsOf(attrs, scps) ==
    {DefaultObj} \cup {attrs[c] : c \in Chains}
        \cup UNION { {scps[c][i].old : i \in 1..Len(scps[c])} : c \in Chains }

\* the identity of the dict a scope of chain c makes on entry: one no chain
\* refers to, named after the chain and the depth of the scope when that
\* one is free
NewObj(c) ==
    LET free == ObjIds \ RefsOf(ATTRIBUTES, scopes)
        slot == DefaultObj + (c - 1) * MaxScopes + Len(scopes[c]) + 1
    IN IF slot \in free THEN slot
       ELSE CHOOSE i \in free : \A j \in free : i <= j

\* objects no chain refers to any more are dropped
Collect(objs, attrs, scps) ==
    [i \in ObjIds |-> IF i \in RefsOf(attrs, scps) THEN objs[i] ELSE FreeObj]

\* a slip of line 558: the bindings are written into the current dict
with_attributes_in_place(objs, old_attributes, new, bound) ==
    [objects |-> [objs EXCEPT ![old_attributes] = LiveObj(bound @@ @.d)],
     ref |-> old_attributes]

\* line 558: ATTRIBUTES.set({**old_attributes, **attributes}) makes a new
\* dict and binds it; the result is the objects and the chain's binding
with_attributes_set(objs, old_attributes, new, bound) ==
    [objects |-> [objs EXCEPT ![new] = LiveObj(bound @@ objs[old_attributes].d)],
     ref |-> new]

\* lines 581-583: the tags merged after the ambient ones, in a new dict,
\* when there are any
with_tags_set(objs, old_attributes, new, tags) ==
    LET merged_tags == merge_tags_into_attributes(objs[old_attributes].d, tags)
    IN IF Truthy(merged_tags)
       THEN [objects |-> [objs EXCEPT ![new] =
                            LiveObj(Put(objs[old_attributes].d, ATTRIBUTES_TAGS_KEY,
                                        merged_tags))],
             ref |-> new]
       ELSE [objects |-> objs, ref |-> old_attributes]

\* a slip of lines 559-562: the restore after the yield, without try/finally
restore_unless_raising(old_attributes, cur, exc_value) ==
    IF exc_value = NoException THEN old_attributes ELSE cur

\* a slip of lines 561-562: no restore, the scope's binding stays
scope_keeps_binding(old_attributes, cur, exc_value) == cur

\* lines 561-562 and 586-587: finally: ATTRIBUTES.set(old_attributes), the
\* chain's binding after the scope, whatever left the body
scope_finally(old_attributes, cur, exc_value) == old_attributes

\* ATTRIBUTES.get() in chain c
AttributesGet(c) == objects[ATTRIBUTES[c]].d

-----------------------------------------------------------------------------
(* Logfire.log, src/logfire/_main.py:229-281                               *)

\* lines 251-263: the record's attributes, or the format error of line 253
LogAttributes(level, msg_template, attrs, ambient, facade_tags) ==
    LET stack_info == GetCallerStackInfo
        merged_attributes == merge_attributes(stack_info, ambient, attrs)
        merged_tags == merge_tags_into_attributes(merged_attributes, facade_tags)
        tags == IF Truthy(merged_tags) THEN merged_tags ELSE ListV(<<>>)
        msg == logfire_format(msg_template, merged_attributes, NoFallback)
        otlp0 == user_attributes(
                    ItemsOf(merged_attributes, DOMAIN merged_attributes), TRUE)
        otlp1 == otlp0 @@ (ATTRIBUTES_SPAN_TYPE_KEY :> StrV("log")
                           @@ ATTRIBUTES_LOG_LEVEL_KEY :> StrV(level)
                           @@ ATTRIBUTES_MESSAGE_TEMPLATE_KEY :> StrV(msg_template.text)
                           @@ ATTRIBUTES_MESSAGE_KEY :> StrV(msg.s))
        otlp_attributes == IF Truthy(tags) THEN Put(otlp1, ATTRIBUTES_TAGS_KEY, tags)
                           ELSE otlp1
    IN [ok |-> msg.ok, name |-> msg.s, otlp_attributes |-> otlp_attributes]

\* line 265: start_time = self._config.ns_timestamp_generator()
LogStartTime == 1

\* lines 274-281: the record is started at start_time, given status ok and
\* ended at start_time
LogRecord(name, otlp_attributes, start_time) ==
    LET span0 == [name |-> name, attributes |-> otlp_attributes,
                  start_time |-> start_time, end_time |-> NotEnded,
                  status |-> "unset"]
    IN SdkEnd(SdkSetStatus(span0, "ok"), start_time)

\* what with_attributes(**attributes) is called with
AmbientBindings == {"a" :> StrV("x"), "a" :> StrV("y")}
\* what with_tags(*tags) is called with
AmbientTags == {<<>>, <<StrV("t")>>}
\* the attributes of a span() or log() call
CallAttributes ==
    {EmptyDict, "a" :> StrV("z"), ATTRIBUTES_SPAN_TYPE_KEY :> StrV("span")}
\* the tags bound on the Logfire instance that emits, Logfire.tags(*tags)
FacadeTags == {<<>>, <<StrV("f")>>}
Levels == {"info"}

NoRecord == [kind |-> "none"]
NoClosed == [closed |-> FALSE]
\* a chain that was not spawned by a chain of the model
NoSpawn == [spawned |-> FALSE]

AmbOff ==
    /\ objects = [i \in ObjIds |-> IF i = DefaultObj THEN LiveObj(EmptyDict) ELSE FreeObj]
    /\ ATTRIBUTES = [c \in Chains |-> DefaultObj]
    /\ scopes = [c \in Chains |-> <<>>]
    /\ failing = [c \in Chains |-> NoException]
    /\ closed = NoClosed
    /\ emitted = NoRecord
    /\ spawn = [c \in Chains |-> NoSpawn]

-----------------------------------------------------------------------------
(* One execution chain using spans: `with` blocks nest, so exits are in    *)
(* the reverse order of the entries; an exception leaves the blocks one by *)
(* one until it is caught.                                                 *)

PendingIds == 1..MaxDepth

TplPlain == Template("hi", <<Lit("hi")>>)
TplA == Template("{a=}", <<Lit("a="), Arg("a")>>)
Templates == {TplPlain, TplA}

SpanKeys == {"a"}
\* the values set_attribute sets
SpanValues == {IntV(2)}
\* the keyword arguments of a span() call
SpanKwargs == {EmptyDict, "a" :> IntV(1)}

LastIdle == [op |-> "none"]

\* before the chain has made its span; the context's current span is set
\* by the initial condition
SpanOff ==
    /\ span = FreeSpan
    /\ pendings = [p \in PendingIds |-> FreePending]
    /\ withStack = <<>>
    /\ raising = NoException
    /\ now = 1
    /\ last = LastIdle

\* the exception events recorded so far
TotalEvents == IF span.created THEN Len(span.events) ELSE 0

CanEnter ==
    /\ raising = NoException
    /\ Len(withStack) < MaxDepth
    /\ TotalEvents < MaxEvents

FreshPending == CHOOSE p \in PendingIds : ~pendings[p].created

\* the entry of a `with` block on pending p: __enter__, lines 474-484
\* before, token, how are history: the current span before, the token
\* attached, and what made the _PendingSpan
Entered(p, pd, how) ==
    LET token == Attach(Len(withStack) + 1, current)
    IN /\ pendings' = [pendings EXCEPT ![p] = PendingEnter(pd, token)]
       /\ current' = pd.span
       /\ withStack' =
            [i \in 1..Len(withStack) |->
                IF how = "activate"
                THEN [withStack[i] EXCEPT !.innerActivate = TRUE]
                ELSE IF withStack[i].p = p
                THEN [withStack[i] EXCEPT !.reentered = TRUE]
                ELSE withStack[i]]
            \o <<[p |-> p, before |-> current, token |-> token, how |-> how,
                  innerActivate |-> FALSE, reentered |-> FALSE]>>
       /\ last' = LastIdle

\* with logfire.span(msg_template, **attrs): Logfire.span, then __enter__
SpanEnter(msg_template, attrs) ==
    /\ CanEnter
    /\ ~span.created
    /\ span' = LogfireSpan(msg_template, attrs, NoneV, EmptyDict, <<>>)
    /\ Entered(FreshPending, PendingSpan(TheSpan, NoneV), "span")
    /\ UNCHANGED <<raising, now, normVars, ambVars>>

\* with span.activate(end_on_exit): LogfireSpan.activate, then __enter__
ActivateEnter(end_on_exit) ==
    /\ CanEnter
    /\ span.created
    /\ Entered(FreshPending, PendingSpan(TheSpan, end_on_exit), "activate")
    /\ UNCHANGED <<span, raising, now, normVars, ambVars>>

\* with p: on a _PendingSpan that is already entered
Reenter(p) ==
    /\ CanEnter
    /\ pendings[p].created
    /\ Entered(p, pendings[p], "reenter")
    /\ UNCHANGED <<span, raising, now, normVars, ambVars>>

\* the end of the innermost `with` block: __exit__, lines 486-539, with the
\* exception that is propagating, if any; an exception __exit__ raises
\* replaces it
Exit ==
    /\ withStack # <<>>
    /\ LET e == withStack[Len(withStack)]
           pd == pendings[e.p]
           r == PendingExit(pd, span, current, raising, now)
           rest == SubSeq(withStack, 1, Len(withStack) - 1)
           entered == \E i \in 1..Len(rest) : rest[i].p = e.p
       IN /\ span' = r.sp
          /\ pendings' = [pendings EXCEPT ![e.p] = IF entered THEN r.pd ELSE FreePending]
          /\ withStack' = rest
          /\ current' = r.cur
          /\ raising' = r.exc
          /\ now' = IF r.sp.end_time # span.end_time THEN now + 1 ELSE now
          /\ last' = [op |-> "exit", entry |-> e,
                      exc_in |-> raising, raised |-> r.raised,
                      end_before |-> span.end_time, events_before |-> span.events,
                      status_before |-> span.status,
                      end_on_exit |-> EffectiveEndOnExit(pd, span),
                      scope_end_on_exit |-> pd.end_on_exit,
                      token_after |-> r.pd.token]
    /\ UNCHANGED <<normVars, ambVars>>

\* user code inside a scope raises
Raise(exc_value) ==
    /\ raising = NoException
    /\ withStack # <<>>
    /\ raising' = exc_value
    /\ last' = LastIdle
    /\ UNCHANGED <<span, pendings, withStack, current, now, normVars, ambVars>>

\* an except clause around the block just left, or the caller, catches
Catch ==
    /\ raising # NoException
    /\ raising' = NoException
    /\ last' = LastIdle
    /\ UNCHANGED <<span, pendings, withStack, current, now, normVars, ambVars>>

\* span.set_attribute(key, value), lines 438-446
SetAttribute(key, value) ==
    /\ raising = NoException
    /\ span.created
    /\ span' = LogfireSpanSetAttribute(span, key, value)
    /\ last' = LastIdle
    /\ UNCHANGED <<pendings, withStack, current, raising, now, normVars, ambVars>>

\* span.end(), lines 414-424
End ==
    /\ raising = NoException
    /\ span.created
    /\ LET sp1 == LogfireSpanEnd(span, now)
       IN /\ span' = sp1
          /\ now' = IF sp1.end_time # span.end_time THEN now + 1 ELSE now
          /\ last' = [op |-> "end", end_before |-> span.end_time]
    /\ UNCHANGED <<pendings, withStack, current, raising, normVars, ambVars>>

\* span.end_on_exit = value (the attribute of line 389, see lines 431-434)
SetEndOnExit(value) ==
    /\ raising = NoException
    /\ span.created
    /\ span.end_on_exit # value
    /\ span' = [span EXCEPT !.end_on_exit = value]
    /\ last' = LastIdle
    /\ UNCHANGED <<pendings, withStack, current, raising, now, normVars, ambVars>>

NormOff ==
    /\ attributes = <<>>
    /\ prepared = <<>>
    /\ message = ""
    /\ normPc = "off"

SpanInit ==
    /\ SpanOff
    /\ current \in {NoSpan, OuterSpan}
    /\ NormOff
    /\ AmbOff

SpanNext ==
    \/ \E t \in Templates, kw \in SpanKwargs : SpanEnter(t, kw)
    \/ \E eoe \in {NoneV, BoolV(TRUE), BoolV(FALSE)} : ActivateEnter(eoe)
    \/ \E p \in PendingIds : Reenter(p)
    \/ Exit
    \/ \E x \in UserExceptions : Raise(x)
    \/ Catch
    \/ \E k \in SpanKeys, v \in SpanValues : SetAttribute(k, v)
    \/ End
    \/ \E b \in BOOLEAN : SetEndOnExit(b)

SpanSpec == SpanInit /\ [][SpanNext]_vars

-----------------------------------------------------------------------------
(* Claims about the span activation stack, checked under SpanSpec. After   *)
(* an Exit step, last holds what __exit__ saw and span, current and        *)
(* raising are what it left.                                               *)

\* C1: when the same span is activated twice through LogfireSpan.activate(),
\* the second activation nested inside the first, and both are exited in
\* LIFO order, the current span after the exit of the first activation is
\* the span that was current before it.
C1_ReentrantActivationRestores ==
    ( /\ last.op = "exit"
      /\ last.entry.how = "activate"
      /\ last.entry.innerActivate
      /\ ~last.entry.reentered )
    => current = last.entry.before

\* both activations exited, another span was current before the first
C1_Witness ==
    /\ last.op = "exit"
    /\ last.entry.how = "activate"
    /\ last.entry.innerActivate
    /\ ~last.entry.reentered
    /\ last.entry.before = OuterSpan
    /\ current = OuterSpan

\* C2: for a span still recording when its scope exits with an exception
\* raised inside the scope, after the exit the status is error, the exit has
\* recorded exactly one exception on the span, and the same exception
\* propagates: the exit neither suppresses nor replaces it. (The exception
\* is an instance of Exception; other signals are C19's.)
C2_ExceptionRecordedAndPropagates ==
    ( /\ last.op = "exit"
      /\ last.end_before = NotEnded
      /\ last.exc_in # NoException
      /\ IsException(last.exc_in) )
    => /\ span.status = "error"
       /\ Len(span.events) = Len(last.events_before) + 1
       /\ span.events[Len(span.events)].exc = last.exc_in
       /\ raising = last.exc_in
       /\ ~last.raised

\* C3: every exit runs all of its steps: when the effective end-on-exit
\* flag is true, the span has ended when the exit finishes, whatever the
\* template and the live keyword mapping, on a normal exit and on an exit
\* through an exception.
C3_ExitEndsSpan ==
    (last.op = "exit" /\ last.end_on_exit)
    => (~last.raised /\ span.end_time # NotEnded)

\* the end timestamp, once set, is kept by every later end() and exit
EndTimeSetOnce ==
    (last.op \in {"end", "exit"} /\ last.end_before # NotEnded)
    => span.end_time = last.end_before

\* C4: ending is idempotent: an end() or an end-on-exit exit on a span that
\* has ended leaves the end timestamp as the first end set it, and raises
\* no error.
C4_EndIsIdempotent ==
    (last.op \in {"end", "exit"} /\ last.end_before # NotEnded)
    => /\ span.end_time = last.end_before
       /\ last.op = "exit" => ~last.raised

\* the template rendered against the start-time keyword mapping updated by
\* every set_attribute call
FinalRender ==
    logfire_format(span.format_string, span.sets @@ span.start_kwargs, NoFallback)

\* C5: after a scope exits, the message attribute is the template rendered
\* against the start-time keyword mapping updated by every set_attribute
\* call made before the exit, whatever set_attribute and end() calls were
\* made inside the scope.
C5_MessageReflectsFinalAttributes ==
    (last.op = "exit" /\ FinalRender.ok)
    => span.attributes[ATTRIBUTES_MESSAGE_KEY] = StrV(FinalRender.s)

-----------------------------------------------------------------------------
(* Execution chains using the ambient context. Each chain nests scopes,    *)
(* emits logs and spans, and may leave its scopes through an exception.    *)
(* The scopes are generator context managers: their finally clause runs on *)
(* both kinds of exit.                                                     *)

\* the scopes open in the chains of set cs
RECURSIVE OpenScopes(_)
OpenScopes(cs) ==
    IF cs = {} THEN 0
    ELSE LET c == CHOOSE x \in cs : TRUE
         IN Len(scopes[c]) + OpenScopes(cs \ {c})

CanOpen(c) ==
    /\ failing[c] = NoException
    /\ OpenScopes(Chains) < MaxScopes

\* a scope is entered: the chain's binding becomes r.ref, the scope keeps
\* old_attributes; the entry also keeps what was bound, as history
Opened(c, r, entry) ==
    LET attrs1 == [ATTRIBUTES EXCEPT ![c] = r.ref]
        scps1 == [scopes EXCEPT ![c] = Append(@, entry)]
    IN /\ ATTRIBUTES' = attrs1
       /\ scopes' = scps1
       /\ objects' = Collect(r.objects, attrs1, scps1)
       /\ closed' = NoClosed
       /\ emitted' = NoRecord
       /\ UNCHANGED <<failing, normVars, spanVars, spawn>>

\* with logfire.with_attributes(**bound): lines 557-560
WithAttributesEnter(c, bound) ==
    /\ CanOpen(c)
    /\ Opened(c, with_attributes_set(objects, ATTRIBUTES[c], NewObj(c), bound),
              [kind |-> "attrs", old |-> ATTRIBUTES[c], attrs |-> bound])

\* with logfire.with_tags(*tags): lines 580-585
WithTagsEnter(c, tags) ==
    /\ CanOpen(c)
    /\ Opened(c, with_tags_set(objects, ATTRIBUTES[c], NewObj(c), tags),
              [kind |-> "tags", old |-> ATTRIBUTES[c], tags |-> tags])

\* the innermost scope of chain c ends, normally or with the exception that
\* is propagating: the finally clause, lines 561-562 and 586-587
ScopeExit(c) ==
    /\ scopes[c] # <<>>
    /\ LET e == scopes[c][Len(scopes[c])]
           attrs1 == [ATTRIBUTES EXCEPT ![c] = scope_finally(e.old, @, failing[c])]
           scps1 == [scopes EXCEPT ![c] = SubSeq(@, 1, Len(@) - 1)]
       IN /\ ATTRIBUTES' = attrs1
          /\ scopes' = scps1
          /\ objects' = Collect(objects, attrs1, scps1)
          /\ closed' = [closed |-> TRUE, chain |-> c, entry |-> e,
                         by_exception |-> failing[c] # NoException]
    /\ emitted' = NoRecord
    /\ UNCHANGED <<failing, normVars, spanVars, spawn>>

\* user code inside a scope of chain c raises
ScopeRaise(c) ==
    /\ failing[c] = NoException
    /\ scopes[c] # <<>>
    /\ failing' = [failing EXCEPT ![c] = "ValueError"]
    /\ emitted' = NoRecord
    /\ closed' = NoClosed
    /\ UNCHANGED <<objects, ATTRIBUTES, scopes, normVars, spanVars, spawn>>

\* the exception of chain c is caught
ScopeCatch(c) ==
    /\ failing[c] # NoException
    /\ failing' = [failing EXCEPT ![c] = NoException]
    /\ emitted' = NoRecord
    /\ UNCHANGED <<objects, ATTRIBUTES, scopes, closed, normVars, spanVars, spawn>>

\* what an emitted record keeps besides its attributes, as history: the
\* chain, the call, the scopes open at the call and the scope last closed
Emission(c, kind, sdk_span, level, msg_template, attrs, facade_tags) ==
    [kind |-> kind, chain |-> c, name |-> sdk_span.name,
     attributes |-> sdk_span.attributes, status |-> sdk_span.status,
     start_time |-> sdk_span.start_time, end_time |-> sdk_span.end_time,
     level |-> level, msg_template |-> msg_template,
     call |-> attrs, facade_tags |-> facade_tags,
     open |-> scopes[c], closed |-> closed]

\* logfire.log(level, msg_template, attrs) in chain c, on a Logfire with
\* facade_tags: one record, or the format error of line 253
Log(c, level, msg_template, attrs, facade_tags) ==
    /\ failing[c] = NoException
    /\ LET r == LogAttributes(level, msg_template, attrs, AttributesGet(c), facade_tags)
       IN IF r.ok
          THEN /\ emitted' = Emission(c, "log",
                                      LogRecord(r.name, r.otlp_attributes, LogStartTime),
                                      level, msg_template, attrs, facade_tags)
               /\ UNCHANGED failing
          ELSE /\ emitted' = NoRecord
               /\ failing' = [failing EXCEPT ![c] = FormatError]
    /\ closed' = NoClosed
    /\ UNCHANGED <<objects, ATTRIBUTES, scopes, normVars, spanVars, spawn>>

\* logfire.span(msg_template, **attrs) in chain c: the span that is started
StartSpan(c, msg_template, attrs, facade_tags) ==
    /\ failing[c] = NoException
    /\ LET r == SpanAttributes(msg_template, attrs, NoneV, AttributesGet(c), facade_tags)
           sdk_span == [name |-> r.name.s, attributes |-> r.otlp_attributes,
                        start_time |-> LogStartTime, end_time |-> NotEnded,
                        status |-> "unset"]
       IN emitted' = Emission(c, "span", sdk_span, "none", msg_template, attrs,
                              facade_tags)
    /\ closed' = NoClosed
    /\ UNCHANGED <<failing, objects, ATTRIBUTES, scopes, normVars, spanVars, spawn>>

AmbInit ==
    /\ AmbOff
    /\ SpanOff
    /\ current = NoSpan
    /\ NormOff

AmbNext ==
    \/ \E c \in Chains, bound \in AmbientBindings : WithAttributesEnter(c, bound)
    \/ \E c \in Chains, tags \in AmbientTags : WithTagsEnter(c, tags)
    \/ \E c \in Chains : ScopeExit(c)
    \/ \E c \in Chains : ScopeRaise(c)
    \/ \E c \in Chains : ScopeCatch(c)
    \/ \E c \in Chains, level \in Levels, t \in Templates, attrs \in CallAttributes,
          ft \in FacadeTags : Log(c, level, t, attrs, ft)
    \/ \E c \in Chains, t \in Templates, attrs \in CallAttributes,
          ft \in FacadeTags : StartSpan(c, t, attrs, ft)

AmbSpec == AmbInit /\ [][AmbNext]_vars

-----------------------------------------------------------------------------
(* Logfire.instrument, src/logfire/_main.py:173-227: the decorated         *)
(* function is f(a, b); a call of the wrapper starts a span with the       *)
(* arguments extracted.                                                    *)

\* a template whose braces are all escaped: it renders '{x}'
TplEscaped == Template("{{x}}", <<Lit("{x}")>>)
TplEmpty == Template("", <<>>)
\* the msg_template of instrument(): None or a template
InstrumentTemplates == {NoneV, TplPlain, TplA, TplEscaped, TplEmpty}

\* sig.parameters of f, the positional ones (lines 209-212)
PosParams == <<"a", "b">>
\* the calls f(1, b=2), f(1, 2), f(a=1, b=2)
WrapperCalls ==
    { [args |-> <<IntV(1)>>, kwargs |-> ("b" :> IntV(2))],
      [args |-> <<IntV(1), IntV(2)>>, kwargs |-> EmptyDict],
      [args |-> <<>>, kwargs |-> ("a" :> IntV(1) @@ "b" :> IntV(2))] }

\* '{' in msg_template
ContainsBrace(text) == \E i \in 1..Len(text) : SubSeq(text, i, i) = "{"

\* lines 196-197: extract_args, None replaced by its default
ExtractArgs(msg_template, extract_args) ==
    IF extract_args = NoneV
    THEN msg_template # NoneV /\ msg_template.text # "" /\ ContainsBrace(msg_template.text)
    ELSE extract_args.b

\* line 217: {k: v for k, v in zip(pos_params, args)}
RECURSIVE Zip(_, _)
Zip(pos_params, args) ==
    IF pos_params = <<>> \/ args = <<>> THEN EmptyDict
    ELSE Put(Zip(Tail(pos_params), Tail(args)), Head(pos_params), Head(args))

\* lines 216-220: the attributes the wrapper hands to self._span
ExtractedAttributes(msg_template, extract_args, args, kwargs) ==
    IF ExtractArgs(msg_template, extract_args)
    THEN kwargs @@ Zip(PosParams, args)
    ELSE EmptyDict

\* a call of the wrapper in chain c: line 222, the call of self._span and,
\* for a template that is given, the span it starts
InstrumentedCall(c, msg_template, extract_args, call) ==
    /\ failing[c] = NoException
    /\ LET extracted == ExtractedAttributes(msg_template, extract_args,
                                            call.args, call.kwargs)
           started == msg_template # NoneV
           r == SpanAttributes(msg_template, extracted, StrV("f"), AttributesGet(c), <<>>)
       IN emitted' = [kind |-> "instrument", chain |-> c,
                      msg_template |-> msg_template, extract_args |-> extract_args,
                      wrapper_call |-> call, extracted |-> extracted,
                      started |-> started,
                      attributes |-> IF started THEN r.otlp_attributes ELSE EmptyDict,
                      call |-> extracted, open |-> scopes[c]]
    /\ closed' = NoClosed
    /\ UNCHANGED <<failing, objects, ATTRIBUTES, scopes, normVars, spanVars, spawn>>

InstrumentNext ==
    \/ \E c \in Chains, bound \in AmbientBindings : WithAttributesEnter(c, bound)
    \/ \E c \in Chains : ScopeExit(c)
    \/ \E c \in Chains, t \in InstrumentTemplates,
          x \in {NoneV, BoolV(TRUE), BoolV(FALSE)}, call \in WrapperCalls :
            InstrumentedCall(c, t, x, call)

InstrumentSpec == AmbInit /\ [][InstrumentNext]_vars

-----------------------------------------------------------------------------
(* Chains that spawn chains. A chain started with a copy of its parent's   *)
(* context (an asyncio task, contextvars.copy_context().run) begins with   *)
(* the parent's binding of ATTRIBUTES: a reference to the same dict.       *)

\* a chain started without the parent's context: it sees the default
context_fresh(bindings, parent, child) == [bindings EXCEPT ![child] = DefaultObj]

\* the context of the child is a copy of the parent's: for the ContextVar of
\* line 449, the same binding
context_copy(bindings, parent, child) == [bindings EXCEPT ![child] = bindings[parent]]

\* chain parent, inside a scope, spawns chain child
Spawn(parent, child) ==
    /\ parent # child
    /\ failing[parent] = NoException
    /\ scopes[parent] # <<>>
    /\ ~spawn[parent].spawned
    /\ ~spawn[child].spawned
    /\ scopes[child] = <<>>
    /\ failing[child] = NoException
    /\ ATTRIBUTES' = context_copy(ATTRIBUTES, parent, child)
    /\ spawn' = [spawn EXCEPT ![child] =
                    [spawned |-> TRUE, parent |-> parent, at |-> AttributesGet(parent)]]
    /\ closed' = NoClosed
    /\ emitted' = NoRecord
    /\ UNCHANGED <<objects, scopes, failing, normVars, spanVars>>

\* a spawned chain that has left its scopes ends; its context goes with it
ChainEnd(child) ==
    /\ spawn[child].spawned
    /\ scopes[child] = <<>>
    /\ failing[child] = NoException
    /\ LET attrs1 == [ATTRIBUTES EXCEPT ![child] = DefaultObj]
       IN /\ ATTRIBUTES' = attrs1
          /\ objects' = Collect(objects, attrs1, scopes)
    /\ spawn' = [spawn EXCEPT ![child] = NoSpawn]
    /\ closed' = NoClosed
    /\ emitted' = NoRecord
    /\ UNCHANGED <<scopes, failing, normVars, spanVars>>

SpawnNext ==
    \/ \E c \in Chains, bound \in AmbientBindings : WithAttributesEnter(c, bound)
    \/ \E c \in Chains : ScopeExit(c)
    \/ \E c \in Chains, level \in Levels : Log(c, level, TplPlain, EmptyDict, <<>>)
    \/ \E parent, child \in Chains : Spawn(parent, child)
    \/ \E child \in Chains : ChainEnd(child)

SpawnSpec == AmbInit /\ [][SpawnNext]_vars

-----------------------------------------------------------------------------
(* Claims about the ambient context, checked under AmbSpec. After a log()  *)
(* or span() call, emitted is the record with the scopes that were open in *)
(* its chain and the scope that closed just before.                        *)

\* the keys with_attributes scopes bind
AmbientKeys == UNION {DOMAIN b : b \in AmbientBindings}

\* the value the innermost of the scopes scps binds to key k, if any
RECURSIVE InnermostBinding(_, _)
InnermostBinding(scps, k) ==
    IF scps = <<>> THEN [found |-> FALSE]
    ELSE LET e == scps[Len(scps)]
         IN IF e.kind = "attrs" /\ k \in DOMAIN e.attrs
            THEN [found |-> TRUE, v |-> e.attrs[k]]
            ELSE InnermostBinding(SubSeq(scps, 1, Len(scps) - 1), k)

\* C6: an attribute bound by a with_attributes scope is carried by every log
\* record and span emitted inside the scope, unless the call site overrides
\* the key, and by no record emitted after the scope has exited, normally or
\* through an exception: a key the call does not pass is on the record, with
\* the innermost open scope's value, exactly when an open scope binds it.
C6_AmbientAttributeScoped ==
    emitted.kind # "none" =>
        \A k \in AmbientKeys \ DOMAIN emitted.call :
            LET b == InnermostBinding(emitted.open, k)
            IN IF b.found
               THEN k \in DOMAIN emitted.attributes /\ emitted.attributes[k] = b.v
               ELSE k \notin DOMAIN emitted.attributes

\* a record emitted inside a scope binding a = x, just after a nested scope
\* binding a = y exited through an exception: it carries a = x
C6_Witness ==
    /\ emitted.kind # "none"
    /\ "a" \notin DOMAIN emitted.call
    /\ emitted.closed.closed
    /\ emitted.closed.chain = emitted.chain
    /\ emitted.closed.by_exception
    /\ emitted.closed.entry.kind = "attrs"
    /\ emitted.closed.entry.attrs = ("a" :> StrV("y"))
    /\ InnermostBinding(emitted.open, "a") = [found |-> TRUE, v |-> StrV("x")]
    /\ emitted.attributes["a"] = StrV("x")

\* the ambient mapping of a chain whose open scopes are scps: the bindings,
\* the inner ones over the outer ones, and the tags in scope order
RECURSIVE AmbientOf(_)
AmbientOf(scps) ==
    IF scps = <<>> THEN EmptyDict
    ELSE LET outer == AmbientOf(SubSeq(scps, 1, Len(scps) - 1))
             e == scps[Len(scps)]
             outer_tags == IF ATTRIBUTES_TAGS_KEY \in DOMAIN outer
                           THEN outer[ATTRIBUTES_TAGS_KEY].e ELSE <<>>
         IN IF e.kind = "attrs" THEN e.attrs @@ outer
            ELSE IF e.tags = <<>> THEN outer
            ELSE Put(outer, ATTRIBUTES_TAGS_KEY, ListV(outer_tags \o e.tags))

\* the tags of the open tag scopes scps, in scope order
RECURSIVE ScopeTags(_)
ScopeTags(scps) ==
    IF scps = <<>> THEN <<>>
    ELSE LET e == scps[Len(scps)]
         IN ScopeTags(SubSeq(scps, 1, Len(scps) - 1))
                \o (IF e.kind = "tags" THEN e.tags ELSE <<>>)

\* the tags attribute of a record, as a sequence
TagsOf(attrs) ==
    IF ATTRIBUTES_TAGS_KEY \in DOMAIN attrs THEN attrs[ATTRIBUTES_TAGS_KEY].e ELSE <<>>

\* C7: under any interleaving of two chains that enter and exit scopes and
\* emit records, the ambient mapping a chain observes is the one its own
\* open scopes make, so no scope entry or exit of the other chain changes
\* it, and a record carries no ambient attribute or tag bound only in the
\* other chain: an attribute the call did not pass is bound, with that
\* value, by an open scope of the emitting chain, and without an open tag
\* scope of the emitting chain the record has the facade's tags only.
C7_ChainsAreIsolated ==
    /\ \A c \in Chains : AttributesGet(c) = AmbientOf(scopes[c])
    /\ emitted.kind # "none" =>
        /\ \A k \in (AmbientKeys \cap DOMAIN emitted.attributes) \ DOMAIN emitted.call :
              \E i \in 1..Len(emitted.open) :
                  /\ emitted.open[i].kind = "attrs"
                  /\ k \in DOMAIN emitted.open[i].attrs
                  /\ emitted.open[i].attrs[k] = emitted.attributes[k]
        /\ ScopeTags(emitted.open) = <<>> =>
              /\ TagsOf(emitted.attributes) = emitted.facade_tags
              /\ (ATTRIBUTES_TAGS_KEY \o NON_SCALAR_VAR_SUFFIX)
                     \notin DOMAIN emitted.attributes

\* a record of one chain, emitted inside its scope binding a = y while a
\* scope of the other chain, entered first, binds a = x: it carries a = y
\* and no tag, and the other chain still observes a = x
C7_Witness ==
    /\ emitted.kind # "none"
    /\ "a" \notin DOMAIN emitted.call
    /\ emitted.facade_tags = <<>>
    /\ \E c \in Chains \ {emitted.chain} :
          /\ InnermostBinding(scopes[c], "a") = [found |-> TRUE, v |-> StrV("x")]
          /\ AttributesGet(c) = ("a" :> StrV("x"))
    /\ InnermostBinding(emitted.open, "a") = [found |-> TRUE, v |-> StrV("y")]
    /\ emitted.attributes["a"] = StrV("y")
    /\ TagsOf(emitted.attributes) = <<>>

\* C8: for every combination of ambient tags and tags bound on the emitting
\* facade, either list possibly empty, the tags attribute of a span or log
\* record is the ambient tags in scope order followed by the facade's tags,
\* with no de-duplication, and it is absent only when both lists are empty.
C8_TagsAreAmbientThenFacade ==
    emitted.kind # "none" =>
        LET tags == ScopeTags(emitted.open) \o emitted.facade_tags
        IN IF tags = <<>>
           THEN ATTRIBUTES_TAGS_KEY \notin DOMAIN emitted.attributes
           ELSE /\ ATTRIBUTES_TAGS_KEY \in DOMAIN emitted.attributes
                /\ emitted.attributes[ATTRIBUTES_TAGS_KEY] = ListV(tags)

-----------------------------------------------------------------------------
(* The normalizer under test: a dict is drawn, user_attributes is called.  *)

NormKeys == {"a", "b"}

\* values of every branch of user_attributes, on both sides of the integer
\* bound, with the wrappers around mappings and sequences
NormValues ==
    { NoneV, IntV(0), IntV(OTLP_MAX_INT_SIZE), IntV(OTLP_MAX_INT_SIZE + 1),
      IntV(0 - OTLP_MAX_INT_SIZE - 1), IntV(0 - OTLP_MAX_INT_SIZE - 2),
      StrV("s"), BoolV(TRUE), FloatV("1.5"), ListV(<<IntV(1), NoneV>>),
      DictV(<<Item(StrV("x"), NoneV)>>), ObjectV,
      FlattenV(DictV(<<Item(StrV("x"), IntV(1)), Item(StrV("y"), IntV(2))>>)),
      FlattenV(DictV(<<Item(StrV("x"), NoneV), Item(StrV("y"), NoneV)>>)),
      FlattenV(DictV(<<Item(IntV(7), FlattenV(ListV(<<IntV(1)>>)))>>)),
      FlattenV(ListV(<<NoneV, IntV(OTLP_MAX_INT_SIZE + 1), DictV(<<>>)>>)),
      FlattenV(ListV(<<>>)) }

\* a dict's keys are distinct
DistinctKeys(items) ==
    \A i, j \in 1..Len(items) : items[i].k = items[j].k => i = j

NormInputs ==
    UNION { { s \in [1..n -> [k : NormKeys, v : NormValues]] : DistinctKeys(s) }
            : n \in 0..MaxAttrs }

NormIdle == <<>>

NormInit ==
    /\ attributes \in NormInputs
    /\ prepared = NormIdle
    /\ message = ""
    /\ normPc = "input"
    /\ SpanOff
    /\ current = NoSpan
    /\ AmbOff

\* user_attributes(attributes)
Normalize ==
    /\ normPc = "input"
    /\ prepared' = user_attributes(attributes, TRUE)
    /\ normPc' = "done"
    /\ UNCHANGED <<attributes, message, spanVars, ambVars>>

NormNext == Normalize

NormSpec == NormInit /\ [][NormNext]_vars

-----------------------------------------------------------------------------
(* Claims about user_attributes, checked under NormSpec *)

\* the wire types: a string, a bool, a number, a tuple of strings
WireSafe(v) ==
    \/ v.t \in {"str", "bool", "int", "float"}
    \/ v.t = "tuple" /\ \A i \in 1..Len(v.l) : v.l[i] \in STRING

\* C9: every value of the mapping user_attributes returns is a string, a
\* bool, a number or a tuple of strings; no null, mapping, list or Flatten
\* wrapper is a value of the output.
C9_OutputIsWireSafe ==
    normPc = "done" => \A k \in DOMAIN prepared : WireSafe(prepared[k])

\* a call that took the null, the Flatten and the JSON branches
C9_Witness ==
    /\ normPc = "done"
    /\ \E i \in 1..Len(attributes) : attributes[i].v.t = "flatten"
    /\ \E i \in 1..Len(attributes) : attributes[i].v.t = "none"
    /\ \E k \in DOMAIN prepared : prepared[k].t = "tuple"

\* the integers the wire format carries natively: -(MAX + 1) .. MAX
InWireIntRange(i) == 0 - OTLP_MAX_INT_SIZE - 1 <= i /\ i <= OTLP_MAX_INT_SIZE

\* C10: an integer outside the wire-safe range, in either direction, is
\* emitted only under the key with the large-int suffix, as its decimal
\* string, and not under the plain key; an integer inside the range is
\* emitted unchanged under the plain key.
C10_LargeIntOnlyUnderSuffix ==
    normPc = "done" =>
        \A n \in 1..Len(attributes) :
            LET key == attributes[n].k
                value == attributes[n].v
            IN value.t = "int" =>
                IF InWireIntRange(value.i)
                THEN /\ key \in DOMAIN prepared
                     /\ prepared[key] = value
                ELSE /\ key \notin DOMAIN prepared
                     /\ (key \o OTLP_LARGE_INT_SUFFIX) \in DOMAIN prepared
                     /\ prepared[key \o OTLP_LARGE_INT_SUFFIX] = StrV(ToString(value.i))

\* string s starts with string p
HasPrefix(s, p) == Len(s) >= Len(p) /\ SubSeq(s, 1, Len(p)) = p

\* pk is an output key user_attributes derives from the input key `key`
EntryOf(pk, key) ==
    \/ pk = key
    \/ pk = key \o OTLP_LARGE_INT_SUFFIX
    \/ pk = key \o NON_SCALAR_VAR_SUFFIX
    \/ HasPrefix(pk, key \o ".")

\* the keys of the items of attrs whose value is null, in input order
RECURSIVE NullKeys(_)
NullKeys(attrs) ==
    IF attrs = <<>> THEN <<>>
    ELSE (IF attrs[1].v.t = "none" THEN <<attrs[1].k>> ELSE <<>>)
             \o NullKeys(Tail(attrs))

InnerEntry(out, ik, value) ==
    LET big == ik \o OTLP_LARGE_INT_SUFFIX
        json == ik \o NON_SCALAR_VAR_SUFFIX
        only(k) == k \in DOMAIN out /\ ({ik, big, json} \ {k}) \cap DOMAIN out = {}
    IN IF value.t \in {"str", "bool", "float"} \/ (value.t = "int" /\ InWireIntRange(value.i))
       THEN only(ik) /\ out[ik] = value
       ELSE IF value.t = "int"
       THEN only(big) /\ out[big] = StrV(ToString(value.i))
       ELSE only(json) /\ out[json] = StrV(logfire_json_dumps(value))

\* C12: for a value wrapped in Flatten around a mapping or a sequence,
\* user_attributes emits one entry per inner element under the key
\* 'outer.inner' (the index as inner key for sequences), with the inner
\* value normalized by the scalar, large-int and JSON-fallback rules; a
\* nested Flatten wrapper is not flattened a second time, and no entry is
\* emitted under the plain outer key.
C12_FlattenOneEntryPerElement ==
    normPc = "done" =>
        \A n \in 1..Len(attributes) :
            attributes[n].v.t = "flatten" =>
                LET key == attributes[n].k
                    items == FlattenItems(attributes[n].v.w)
                IN /\ key \notin DOMAIN prepared
                   /\ \A j \in 1..Len(items) :
                         InnerEntry(prepared, key \o "." \o PyStr(items[j].k),
                                    items[j].v)

\* C13: for every level, template and attributes mapping with which log()
\* succeeds, one record is started and ended within the call, its end time
\* equals its start time, its status is ok, and its span-type attribute is
\* 'log': no caller-supplied or ambient attribute changes the span-type,
\* level, template or message attributes.
C13_LogRecordIsFixed ==
    emitted.kind = "log" =>
        /\ emitted.end_time # NotEnded
        /\ emitted.end_time = emitted.start_time
        /\ emitted.status = "ok"
        /\ emitted.attributes[ATTRIBUTES_SPAN_TYPE_KEY] = StrV("log")
        /\ emitted.attributes[ATTRIBUTES_LOG_LEVEL_KEY] = StrV(emitted.level)
        /\ emitted.attributes[ATTRIBUTES_MESSAGE_TEMPLATE_KEY]
               = StrV(emitted.msg_template.text)
        /\ emitted.attributes[ATTRIBUTES_MESSAGE_KEY] = StrV(emitted.name)

\* the message of a template rendered with the values of the call alone
CallRender(record) == logfire_format(record.msg_template, record.call, NoFallback)

\* C14: in both span() and log(), when a key is bound both in the ambient
\* context and at the call site, the emitted attribute and the rendered
\* message use the call-site value; and when nested with_attributes scopes
\* bind the same key, the innermost scope's value is the ambient one.
C14_CallSiteWinsInnermostAmbient ==
    /\ \A c \in Chains : \A k \in AmbientKeys :
          InnermostBinding(scopes[c], k).found
              => AttributesGet(c)[k] = InnermostBinding(scopes[c], k).v
    /\ emitted.kind # "none" =>
          \A k \in AmbientKeys \cap DOMAIN emitted.call :
              InnermostBinding(emitted.open, k).found =>
                  /\ emitted.attributes[k] = emitted.call[k]
                  /\ CallRender(emitted).ok
                  /\ emitted.attributes[ATTRIBUTES_MESSAGE_KEY]
                         = StrV(CallRender(emitted).s)

\* a record whose call passes a = z, with a template that renders a, inside
\* a scope binding a = y nested in a scope binding a = x
C14_Witness ==
    /\ emitted.kind # "none"
    /\ emitted.msg_template = TplA
    /\ emitted.call = ("a" :> StrV("z"))
    /\ Len(emitted.open) = 2
    /\ emitted.open[1].kind = "attrs" /\ emitted.open[1].attrs = ("a" :> StrV("x"))
    /\ emitted.open[2].kind = "attrs" /\ emitted.open[2].attrs = ("a" :> StrV("y"))
    /\ AttributesGet(emitted.chain) = ("a" :> StrV("y"))
    /\ emitted.attributes["a"] = StrV("z")
    /\ emitted.attributes[ATTRIBUTES_MESSAGE_KEY] = StrV("a=z")

\* the ambient mapping of a chain that started with the mapping base and
\* has the scopes scps open
RECURSIVE AmbientFrom(_, _)
AmbientFrom(base, scps) ==
    IF scps = <<>> THEN base
    ELSE LET outer == AmbientFrom(base, SubSeq(scps, 1, Len(scps) - 1))
             e == scps[Len(scps)]
             outer_tags == IF ATTRIBUTES_TAGS_KEY \in DOMAIN outer
                           THEN outer[ATTRIBUTES_TAGS_KEY].e ELSE <<>>
         IN IF e.kind = "attrs" THEN e.attrs @@ outer
            ELSE IF e.tags = <<>> THEN outer
            ELSE Put(outer, ATTRIBUTES_TAGS_KEY, ListV(outer_tags \o e.tags))

\* the mapping chain c started with
BaseOf(c) == IF spawn[c].spawned THEN spawn[c].at ELSE EmptyDict

\* the ambient attributes a record carries
AmbientPart(attrs) == [k \in AmbientKeys \cap DOMAIN attrs |-> attrs[k]]

-----------------------------------------------------------------------------
(* The formatter under test, as in test_truncate                           *)
(* (src/tests/test_formatter.py:62-82): two argument values are drawn and  *)
(* logfire_format renders '1 {a} 2 {b} 3' with them.                       *)

TplTwo ==
    Template("1 {a} 2 {b} 3", <<Lit("1 "), Arg("a"), Lit(" 2 "), Arg("b"), Lit(" 3")>>)

\* the argument values drawn: every length up to MaxArgLen, of characters
\* that are all different
ArgStrings(alphabet) == {SubSeq(alphabet, 1, n) : n \in 0..MaxArgLen}

FormatInputs ==
    { <<Item("a", StrV(a)), Item("b", StrV(b))>> :
        a \in ArgStrings("abcdefghijklmnop"), b \in ArgStrings("ABCDEFGHIJKLMNOP") }

\* the dict whose items are `items`
RECURSIVE DictOf(_)
DictOf(items) ==
    IF items = <<>> THEN EmptyDict
    ELSE Put(DictOf(SubSeq(items, 1, Len(items) - 1)),
             items[Len(items)].k, items[Len(items)].v)

FormatInit ==
    /\ attributes \in FormatInputs
    /\ prepared = NormIdle
    /\ message = ""
    /\ normPc = "input"
    /\ SpanOff
    /\ current = NoSpan
    /\ AmbOff

\* logfire_format('1 {a} 2 {b} 3', attributes)
Format ==
    /\ normPc = "input"
    /\ message' = logfire_format(TplTwo, DictOf(attributes), NoFallback).s
    /\ normPc' = "done"
    /\ UNCHANGED <<attributes, prepared, spanVars, ambVars>>

FormatNext == Format

FormatSpec == FormatInit /\ [][FormatNext]_vars

\* r is the value s rendered by the truncation rule with truncated length
\* len: s itself when it is no longer than len, else len characters, a
\* prefix of s, the ellipsis and a suffix of s
TruncatedTo(r, s, len) ==
    IF Len(s) <= len THEN r = s
    ELSE /\ Len(r) = len
         /\ \E p \in 1..(len - Len(Ellipsis) - 1) :
               LET q == len - Len(Ellipsis) - p
               IN r = SubSeq(s, 1, p) \o Ellipsis \o SubSeq(s, Len(s) - q + 1, Len(s))

\* C16: in a rendered message each argument value is truncated on its own:
\* a value longer than the truncated length L becomes exactly L characters,
\* a prefix of the original, the ellipsis and a suffix of the original,
\* whatever its length; a value of length at most L is rendered unchanged;
\* the literal text is never truncated.
C16_ArgumentsTruncatedIndependently ==
    normPc = "done" =>
        LET a == attributes[1].v.s
            b == attributes[2].v.s
            la == IF Len(a) > TruncatedLength THEN TruncatedLength ELSE Len(a)
            lb == IF Len(b) > TruncatedLength THEN TruncatedLength ELSE Len(b)
        IN /\ Len(message) = 2 + la + 3 + lb + 2
           /\ SubSeq(message, 1, 2) = "1 "
           /\ TruncatedTo(SubSeq(message, 3, 2 + la), a, TruncatedLength)
           /\ SubSeq(message, 3 + la, 5 + la) = " 2 "
           /\ TruncatedTo(SubSeq(message, 6 + la, 5 + la + lb), b, TruncatedLength)
           /\ SubSeq(message, 6 + la + lb, 7 + la + lb) = " 3"

\* a value one longer than L with a value of length L: the first is
\* truncated, the second is not
C16_Witness ==
    /\ normPc = "done"
    /\ attributes[1].v.s = "abcdefgh"
    /\ attributes[2].v.s = "ABCDEFG"
    /\ message = "1 ab...gh 2 ABCDEFG 3"

\* the template has an argument placeholder
HasPlaceholder(msg_template) ==
    \E i \in 1..Len(msg_template.chunks) : msg_template.chunks[i].c = "arg"

\* C17: when instrument() is called without an explicit extract_args,
\* argument extraction is enabled exactly when a template is given and it
\* contains an argument placeholder; a missing template, or a template with
\* no placeholder (one with only escaped braces included), leaves extraction
\* disabled and the span gets no argument attributes (a parameter's name in
\* its attributes is one an open with_attributes scope binds).
C17_ExtractionDefault ==
    (emitted.kind = "instrument" /\ emitted.extract_args = NoneV) =>
        IF emitted.msg_template # NoneV /\ HasPlaceholder(emitted.msg_template)
        THEN emitted.extracted
                 = emitted.wrapper_call.kwargs @@ Zip(PosParams, emitted.wrapper_call.args)
        ELSE /\ emitted.extracted = EmptyDict
             /\ \A i \in 1..Len(PosParams) :
                    PosParams[i] \in DOMAIN emitted.attributes =>
                        \E j \in 1..Len(emitted.open) :
                            PosParams[i] \in DOMAIN emitted.open[j].attrs

-----------------------------------------------------------------------------
(* Claims about re-entry, signals and ended spans, checked under SpanSpec. *)

\* the entry of the enclosing `with` block on pending p that is still open
OuterEntryOf(p) ==
    LET i == CHOOSE j \in 1..Len(withStack) :
                 /\ withStack[j].p = p
                 /\ \A k \in (j + 1)..Len(withStack) : withStack[k].p # p
    IN withStack[i]

\* C18: when the same _PendingSpan is entered again while already entered,
\* each exit detaches the token attached by its matching enter, in LIFO
\* order: after an inner exit the object still holds the token of the outer
\* enter, and after the outer exit the current span is the one that was
\* current before the first enter and the object holds no token.
C18_ReentryDetachesMatchingToken ==
    last.op = "exit" =>
        /\ last.entry.how = "reenter" =>
               /\ current = last.entry.before
               /\ last.token_after = OuterEntryOf(last.entry.p).token
        /\ last.entry.reentered =>
               /\ current = last.entry.before
               /\ last.token_after = NoToken

\* C19: the exit of an activation scope sets the span's status to ok only
\* when no exception of any kind is propagating through the scope; when any
\* exception propagates, a cancellation or interrupt signal that is no
\* ordinary error included, the exit does not set the status to ok.
C19_OkOnlyWithoutException ==
    (last.op = "exit" /\ last.exc_in # NoException)
    => (span.status = "ok" => last.status_before = "ok")

DescribedFlag ==
    IF last.scope_end_on_exit # NoneV THEN last.scope_end_on_exit.b
    ELSE span.end_on_exit

-----------------------------------------------------------------------------
(* Claims about the identity of the ambient mappings, checked under        *)
(* AmbSpec.                                                                *)

\* after the exit of a scope the chain's binding is the object that was
\* bound just before the matching entry
RestoredByReference ==
    closed.closed =>
        /\ ATTRIBUTES[closed.chain] = closed.entry.old
        /\ objects[closed.entry.old].live

\* a dict object keeps its content for as long as it exists
NeverMutatedInPlace ==
    \A i \in ObjIds :
        (objects[i].live /\ objects'[i].live) => objects'[i] = objects[i]

\* C22: for any nesting of with_attributes and with_tags scopes entered and
\* exited in stack order within a chain, after each exit, normal or through
\* an exception, the ambient mapping is the very same mapping object that
\* was current just before the matching entry, and no scope entry or exit
\* ever mutates a mapping in place: the object a scope keeps exists, with
\* the content it had, until the scope has exited.
C22_RestoredByReferenceNeverMutated ==
    /\ [](RestoredByReference /\ \A c \in Chains : \A i \in 1..Len(scopes[c]) :
                                     objects[scopes[c][i].old].live)
    /\ [][NeverMutatedInPlace]_vars

\* a with_tags scope nested in a with_attributes scope binding a = x has
\* exited through an exception: the chain's binding is the dict object of
\* the outer scope, which is not the default one and holds a = x only
C22_Witness ==
    /\ closed.closed
    /\ closed.by_exception
    /\ closed.entry.kind = "tags"
    /\ closed.entry.tags # <<>>
    /\ closed.entry.old # DefaultObj
    /\ ATTRIBUTES[closed.chain] = closed.entry.old
    /\ AttributesGet(closed.chain) = ("a" :> StrV("x"))
    /\ Len(scopes[closed.chain]) = 1

-----------------------------------------------------------------------------
(* Null elements inside a Flatten wrapper, checked under NormSpec.         *)

\* the inner key ik is recorded as null for the outer key `key`: it is in
\* the tuple stored under 'key.' + NULL_ARGS_KEY
RecordedNull(out, key, ik) ==
    LET nk == key \o "." \o NULL_ARGS_KEY
    IN /\ nk \in DOMAIN out
       /\ out[nk].t = "tuple"
       /\ \E i \in 1..Len(out[nk].l) : out[nk].l[i] = ik

\* C23: null values are normalized losslessly also inside a Flatten wrapper:
\* for a Flatten-wrapped mapping or sequence with one or more null elements,
\* the output of user_attributes records the key path of every null
\* element, so two different null elements of one wrapper are both
\* recoverable from the output.
C23_FlattenNullsAllRecorded ==
    normPc = "done" =>
        \A n \in 1..Len(attributes) :
            attributes[n].v.t = "flatten" =>
                LET items == FlattenItems(attributes[n].v.w)
                IN \A j \in 1..Len(items) :
                       items[j].v = NoneV =>
                           RecordedNull(prepared, attributes[n].k, PyStr(items[j].k))

-----------------------------------------------------------------------------
(* The two emission paths and a template name no attribute resolves,       *)
(* checked under AmbSpec.                                                  *)

\* the names the attributes of a call resolve: the call's, the ambient ones
\* of the scopes open at the call, the caller's stack info
ResolvedNames(record) ==
    DOMAIN record.call \cup DOMAIN AmbientOf(record.open) \cup DOMAIN GetCallerStackInfo

\* the template of the record names something no attribute resolves
HasUnresolvedName(record) ==
    \E i \in 1..Len(record.msg_template.chunks) :
        /\ record.msg_template.chunks[i].c = "arg"
        /\ record.msg_template.chunks[i].name \notin ResolvedNames(record)

\* a span() call with such a template starts its span with the fallback
\* message; a log record is only ever emitted with every name resolved
UnresolvedNameAtStart ==
    /\ (emitted.kind = "span" /\ HasUnresolvedName(emitted)) =>
           /\ emitted.attributes[ATTRIBUTES_MESSAGE_KEY] = StrV("...")
           /\ emitted.end_time = NotEnded
    /\ emitted.kind = "log" => ~HasUnresolvedName(emitted)

\* the step in which chain c starts a span raises nothing in the chain
SpanStartNeverFails ==
    emitted'.kind = "span" => failing'[emitted'.chain] = NoException

\* the step in which a log() call of chain c raises its format error
LogRaises(c) == failing[c] = NoException /\ failing'[c] = FormatError

\* that step emits no record and changes neither the current span nor the
\* ambient context
LogFailureChangesNothing ==
    \A c \in Chains :
        LogRaises(c) => /\ emitted' = NoRecord
                        /\ UNCHANGED <<current, ATTRIBUTES, objects, scopes>>

\* C24: a name in the template that no attribute resolves is handled
\* differently by the two emission paths: span() never fails at start (the
\* message is the fallback string and the span is started), whereas log()
\* surfaces the format error to the caller synchronously, and in that case
\* emits no record and leaves the current span and the ambient context
\* unchanged.
C24_UnresolvedNameSpanFallbackLogRaises ==
    /\ []UnresolvedNameAtStart
    /\ [][SpanStartNeverFails /\ LogFailureChangesNothing]_vars

\* a log() call inside a with_tags scope has raised its format error: the
\* chain is failing with it, no record is emitted, the scope is still open
C24_Witness ==
    \E c \in Chains :
        /\ failing[c] = FormatError
        /\ emitted = NoRecord
        /\ Len(scopes[c]) = 1
        /\ scopes[c][1].kind = "tags"
        /\ ATTRIBUTES[c] # DefaultObj
        /\ objects[ATTRIBUTES[c]].live

====
